---------------------------- MODULE Spec2Model ----------------------------
(***************************************************************************)
(* A model of NDLNoise: the parallel trial scheduler of main.py            *)
(* (parse_arguments, main, run_simulations, run_trial, run_child over a    *)
(* multiprocessing.Pool) and the word-order classifier of Sentence.py.     *)
(*                                                                         *)
(* Probabilities (noise levels, uniform draws) are counted in units of     *)
(* 1/Resolution, so that 0.0 is 0 and 1.0 is Resolution.  Rates are        *)
(* counted in units of 1/10000.                                            *)
(***************************************************************************)
EXTENDS Integers, Sequences, FiniteSets, Bags, TLC

(***************************************************************************)
(* Bounds of the model.                                                    *)
(***************************************************************************)
MaxTrials == 4
MaxSentences == 2
MaxProcs == 2
MaxCrashes == 1
MaxWork == 16
MaxTokens == 4
Resolution == 4

(***************************************************************************)
(* Program constants.                                                      *)
(***************************************************************************)
English == 611
French == 584
German == 2253
Japanese == 3856
DefaultRate == 9000
DefaultConservativeRate == 5

VARIABLES
    pc,          \* where the driving process is
    argv,        \* the command line's values, or NoArgs for a direct caller
    args,        \* the namespace parse_arguments returned
    params,      \* the ExperimentParameters handed to run_simulations
    domain,      \* DOMAIN: the grammar ids the store holds, or Uninitialised
    gen,         \* the loop counters of the `trials` generator expression
    generated,   \* history: what the generator has produced, in order
    taskqueue,   \* the pool's task queue
    workers,     \* what each worker process is doing
    outqueue,    \* results on their way to the consumer
    index,       \* IMapUnorderedIterator._index
    length,      \* IMapUnorderedIterator._length (NoLength until set)
    yielded,     \* history: the records the consumer has received (a bag)
    crashes,     \* history: how many worker processes have died
    inits,       \* history: how many times the domain store was initialised
    executed,    \* history: the jobs workers have started, in order
    error,       \* the exception the consumer received, or NoError
    infoList,    \* the 3-element list a Sentence is constructed from
    sentence,    \* the Sentence object, or NoSentence before construction
    call,        \* the last method called on the Sentence, with its argument
    ret,         \* what that call returned
    trialIn,     \* run_trial alone: its parameters, the learner run_child
                 \* returned and the two clock readings, or NoTrial
    results      \* run_trial alone: the record it returned, or NoResults

sentVars == <<infoList, sentence, call, ret>>
schedVars == <<pc, argv, args, params, domain, gen, generated, taskqueue,
               workers, outqueue, index, length, yielded, crashes, inits,
               executed, error>>
trialVars == <<trialIn, results>>
otherVars == <<sentVars, trialVars>>
vars == <<schedVars, sentVars, trialVars>>

NoArgs == [none |-> TRUE]
NoParams == [none |-> TRUE]
Uninitialised == {"uninitialised"}
NoLength == -1
NoError == "none"
Idle == [status |-> "idle"]
NoInfo == <<>>
NoSentence == [none |-> TRUE]
NoCall == <<"none">>
NoTrial == [none |-> TRUE]
NoResults == [none |-> TRUE]

(***************************************************************************)
(* Input spaces.                                                           *)
(***************************************************************************)
Half == Resolution \div 2

\* What float() accepts on the command line: any number, in range or not.
CliNoiseValues == {-1, 0, Half, Resolution, Resolution + 1}
\* Probabilities.
NoiseValues == {0, Half, Resolution}

\* Lists of at most two entries, and those among them listed in increasing
\* order.
SeqsUpTo2(S) == {<<>>} \cup {<<a>> : a \in S} \cup {<<a, b>> : a, b \in S}
Increasing(S) == {q \in SeqsUpTo2(S) : Len(q) = 2 => q[1] < q[2]}

\* The languages main() sweeps over.
MainLanguages == <<English, French, German, Japanese>>

\* The flat files the domain store may be initialised from.
FlatFiles == {{English, French, German, Japanese}, {English, French, German}}

NumTrials(p) == p.num_echildren * Len(p.languages) * Len(p.noise_levels)

\* The size of an experiment: its trials, by the iterations of each (and its
\* start), by the workers that share them.
Work(trials, sentences, procs) == trials * (sentences + 1) * procs

ArgvSpace ==
    {a \in [rate : {DefaultRate}, cons_rate : {DefaultConservativeRate},
            num_echildren : 0..MaxTrials, num_sents : 0..MaxSentences,
            noise_levels : {<<x>> : x \in CliNoiseValues},
            num_procs : 0..MaxProcs] :
        LET trials == a.num_echildren * Len(MainLanguages)
                        * Len(a.noise_levels)
        IN  /\ trials <= MaxTrials
            /\ Work(trials, a.num_sents, a.num_procs) <= MaxWork}

ParamSpace ==
    {p \in [languages : SeqsUpTo2({English, Japanese}),
            noise_levels : Increasing(NoiseValues),
            learningrate : {DefaultRate},
            conservative_learningrate : {DefaultConservativeRate},
            num_sentences : 0..MaxSentences,
            num_echildren : 0..MaxTrials,
            num_procs : 1..MaxProcs] :
        /\ NumTrials(p) <= MaxTrials
        /\ Work(NumTrials(p), p.num_sentences, p.num_procs) <= MaxWork}


(***************************************************************************)
(* main.py: the trial generator of run_simulations.                        *)
(***************************************************************************)
TrialParameters(language, noise, rate, conservativerate, numberofsentences) ==
    [language |-> language, noise |-> noise, rate |-> rate,
     conservativerate |-> conservativerate,
     numberofsentences |-> numberofsentences]

\* The loop counters before the first trial: for lang ... for noise ... for _.
GenStart == [lang |-> 1, noise |-> 1, rep |-> 1]

\* The generator expression has nothing more to give.
GenExhausted(p, g) ==
    \/ g.lang > Len(p.languages)
    \/ Len(p.noise_levels) = 0
    \/ p.num_echildren <= 0

\* The TrialParameters built at the loop counters g.
GenTrial(p, g) ==
    TrialParameters(p.languages[g.lang], p.noise_levels[g.noise],
                    p.learningrate, p.conservative_learningrate,
                    p.num_sentences)

\* The loop counters after one trial: the innermost loop is the replication
\* count, then the noise levels, then the languages.
\* (a variant: the noise levels as the innermost loop)
GenAdvanceNoiseInnermost(p, g) ==
    IF g.noise < Len(p.noise_levels)
    THEN [g EXCEPT !.noise = g.noise + 1]
    ELSE IF g.rep < p.num_echildren
         THEN [g EXCEPT !.rep = g.rep + 1, !.noise = 1]
         ELSE [lang |-> g.lang + 1, noise |-> 1, rep |-> 1]
GenAdvance(p, g) ==
    IF g.rep < p.num_echildren
    THEN [g EXCEPT !.rep = g.rep + 1]
    ELSE IF g.noise < Len(p.noise_levels)
         THEN [g EXCEPT !.noise = g.noise + 1, !.rep = 1]
         ELSE [lang |-> g.lang + 1, noise |-> 1, rep |-> 1]

(***************************************************************************)
(* Collaborators that are not part of the source tree.                     *)
(***************************************************************************)
\* ColagDomain.get_sentence_in_language / get_sentence_not_in_language:
\* fails when the grammar id is not registered.
DomainKnows(store, grammar_id) == grammar_id \in store

\* InstrumentedNDChild(rate, conservativerate, language)
NewChild(rate, conservativerate, language) ==
    [target_language |-> language, rate |-> rate,
     conservativerate |-> conservativerate, consumed |-> 0]

\* aChild.consumeSentence(s)
ConsumeSentence(child) == [child EXCEPT !.consumed = child.consumed + 1]

\* utils.progress_bar: a passive observer of the stream.
ProgressBar(item) == item

(***************************************************************************)
(* main.py: run_child and run_trial, as a worker executes them.            *)
(***************************************************************************)
\* `random() < noise`: the draw u is in [0,1).
Draws == 0..(Resolution - 1)
\* (a variant: the comparison taken as `<=`)
IsNoiseOrEqual(u, noise) == u <= noise
IsNoise(u, noise) == u < noise

\* run_trial's result: the literal entries, then **params on top.
\* (f @@ g keeps f where both are defined, so the later dict goes first.)
\* The timestamp, the duration and the learner's grammar weights are left out.
TrialResults(child, p) ==
    p @@ [language |-> child.target_language]

\* run_trial's whole record: {'timestamp': now, 'duration': now - then,
\* 'language': child.target_language, **child.grammar, **params}.  In a dict
\* display a later entry for a key replaces an earlier one.
RunTrialRecord(then, now, child, p) ==
    p @@ child.grammar
      @@ [timestamp |-> now, duration |-> now - then,
          language |-> child.target_language]

\* A worker that has taken task t: asdict(params), then run_child up to the
\* loop.
Started(t) ==
    [status |-> "busy", job |-> t.job, params |-> t.params,
     child |-> NewChild(t.params.rate, t.params.conservativerate,
                        t.params.language),
     i |-> 0, inCalls |-> 0, notInCalls |-> 0]

\* (a variant of Stepped: the sentence is sampled and not fed to the learner)
SteppedWithoutConsume(w, u) ==
    [w EXCEPT !.i = w.i + 1,
              !.inCalls = IF IsNoise(u, w.params.noise) THEN @ ELSE @ + 1,
              !.notInCalls = IF IsNoise(u, w.params.noise) THEN @ + 1 ELSE @]
\* One iteration of run_child's loop with draw u, the sentence delivered.
Stepped(w, u) ==
    [w EXCEPT !.i = w.i + 1,
              !.inCalls = IF IsNoise(u, w.params.noise) THEN @ ELSE @ + 1,
              !.notInCalls = IF IsNoise(u, w.params.noise) THEN @ + 1 ELSE @,
              !.child = ConsumeSentence(@)]

\* The worker after an iteration in which the domain store raised.
Raised(w) == [status |-> "raised", job |-> w.job, exc |-> "UnknownGrammar"]

\* One iteration of run_child's loop against the domain store: the store's
\* exception is not caught, it ends run_child and run_trial.
\* (a variant: the exception is caught and the iteration skipped)
RunChildStepSwallowing(w, u, store) ==
    IF DomainKnows(store, w.params.language)
    THEN Stepped(w, u)
    ELSE [w EXCEPT !.i = w.i + 1]
RunChildStep(w, u, store) ==
    IF DomainKnows(store, w.params.language)
    THEN Stepped(w, u)
    ELSE Raised(w)

(***************************************************************************)
(* The pool: multiprocessing.Pool(num_procs).imap_unordered(run_trial, ..) *)
(***************************************************************************)
Procs == 1..MaxProcs
\* (a variant of PoolWorkers: as many workers as the machine allows)
PoolWorkersUnsized == 1..MaxProcs
PoolWorkers == 1..params.num_procs

TaskPut(q, t) == Append(q, t)
\* (a variant of ResultPut: a result that finds the queue occupied is lost)
ResultPutOverwriting(q, r) == IF q = <<>> THEN <<r>> ELSE <<Head(q)>>
ResultPut(q, r) == Append(q, r)

\* Pool.terminate(), on leaving the with block.
Terminated ==
    /\ taskqueue' = <<>>
    /\ outqueue' = <<>>
    /\ workers' = [w \in Procs |-> Idle]

SchedInit ==
    /\ \/ /\ argv \in ArgvSpace
          /\ params = NoParams
          /\ pc = "cli"
       \/ /\ argv = NoArgs
          /\ params \in ParamSpace
          /\ pc = "created"
    /\ args = NoArgs
    /\ domain = Uninitialised
    /\ gen = GenStart
    /\ generated = <<>>
    /\ taskqueue = <<>>
    /\ workers = [w \in Procs |-> Idle]
    /\ outqueue = <<>>
    /\ index = 0
    /\ length = NoLength
    /\ yielded = EmptyBag
    /\ crashes = 0
    /\ inits = 0
    /\ executed = <<>>
    /\ error = NoError

\* No Sentence is under construction.
NoSentenceInit ==
    /\ infoList = NoInfo
    /\ sentence = NoSentence
    /\ call = NoCall
    /\ ret = NoCall

\* run_trial is not being looked at on its own.
NoTrialInit ==
    /\ trialIn = NoTrial
    /\ results = NoResults

Init == SchedInit /\ NoSentenceInit /\ NoTrialInit

\* parse_arguments: every option is converted by int() or float(); nothing
\* is range-checked.
ParseArguments ==
    /\ pc = "cli"
    /\ args' = [rate |-> argv.rate, cons_rate |-> argv.cons_rate,
                num_echildren |-> argv.num_echildren,
                num_sents |-> argv.num_sents,
                noise_levels |-> argv.noise_levels,
                num_procs |-> argv.num_procs]
    /\ pc' = "parsed"
    /\ UNCHANGED <<argv, params, domain, gen, generated, taskqueue, workers,
                   outqueue, index, length, yielded, crashes, error>>
    /\ UNCHANGED <<inits, executed>>
    /\ UNCHANGED otherVars

\* main, up to run_simulations(params): the generator object is created, its
\* body has not started.
Main ==
    /\ pc = "parsed"
    /\ params' = [learningrate |-> args.rate,
                  conservative_learningrate |-> args.cons_rate,
                  num_sentences |-> args.num_sents,
                  noise_levels |-> args.noise_levels,
                  num_procs |-> args.num_procs,
                  num_echildren |-> args.num_echildren,
                  languages |-> MainLanguages]
    /\ pc' = "created"
    /\ UNCHANGED <<argv, args, domain, gen, generated, taskqueue, workers,
                   outqueue, index, length, yielded, crashes, error>>
    /\ UNCHANGED <<inits, executed>>
    /\ UNCHANGED otherVars

\* (a variant of StartRun: the pool is started, the domain store not loaded)
StartRunWithoutInit(file) ==
    /\ pc = "created"
    /\ gen' = GenStart
    /\ IF params.num_procs < 1
       THEN /\ pc' = "raised"
            /\ error' = "ValueError"
       ELSE /\ pc' = "running"
            /\ error' = error
    /\ UNCHANGED <<argv, args, params, domain, generated, taskqueue, workers,
                   outqueue, index, length, yielded, crashes>>
    /\ UNCHANGED <<inits, executed>>
    /\ UNCHANGED otherVars

\* The consumer's first pull runs run_simulations up to `yield from`: the
\* domain store is loaded (DOMAIN.init_from_flatfile), the pool is created,
\* imap_unordered is started.
\* Pool(n) raises ValueError for n < 1.
StartRun(file) ==
    /\ pc = "created"
    /\ domain' = file
    /\ gen' = GenStart
    /\ IF params.num_procs < 1
       THEN /\ pc' = "raised"
            /\ error' = "ValueError"
       ELSE /\ pc' = "running"
            /\ error' = error
    /\ UNCHANGED <<argv, args, params, generated, taskqueue, workers,
                   outqueue, index, length, yielded, crashes>>
    /\ inits' = inits + 1
    /\ UNCHANGED executed
    /\ UNCHANGED otherVars

\* The pool's task handler pulls the next trial from the generator and puts
\* it on the task queue.
PullTrial ==
    /\ pc = "running"
    /\ length = NoLength
    /\ ~GenExhausted(params, gen)
    /\ LET t == GenTrial(params, gen)
       IN  /\ generated' = Append(generated, [at |-> gen, trial |-> t])
           /\ taskqueue' = TaskPut(taskqueue,
                                   [job |-> Len(generated) + 1, params |-> t])
    /\ gen' = GenAdvance(params, gen)
    /\ UNCHANGED <<pc, argv, args, params, domain, workers, outqueue, index,
                   length, yielded, crashes, error>>
    /\ UNCHANGED <<inits, executed>>
    /\ UNCHANGED otherVars

\* The task handler finds the generator exhausted and tells the iterator how
\* many results to expect.
SetLength ==
    /\ pc = "running"
    /\ length = NoLength
    /\ GenExhausted(params, gen)
    /\ length' = Len(generated)
    /\ UNCHANGED <<pc, argv, args, params, domain, gen, generated, taskqueue,
                   workers, outqueue, index, yielded, crashes, error>>
    /\ UNCHANGED <<inits, executed>>
    /\ UNCHANGED otherVars

\* An idle worker takes the next task and starts run_trial.
WorkerTake(w) ==
    /\ pc = "running"
    /\ w \in PoolWorkers
    /\ workers[w] = Idle
    /\ taskqueue # <<>>
    /\ workers' = [workers EXCEPT ![w] = Started(Head(taskqueue))]
    /\ taskqueue' = Tail(taskqueue)
    /\ UNCHANGED <<pc, argv, args, params, domain, gen, generated, outqueue,
                   index, length, yielded, crashes, error>>
    /\ executed' = Append(executed, Head(taskqueue).job)
    /\ UNCHANGED inits
    /\ UNCHANGED otherVars

\* One iteration of run_child's loop.  The domain store fails on a grammar
\* id it does not hold; the pool's worker catches the exception and sends it
\* back as the task's result.
WorkerStep(w) ==
    /\ pc = "running"
    /\ w \in PoolWorkers
    /\ workers[w] # Idle
    /\ workers[w].i < workers[w].params.numberofsentences
    /\ \E u \in Draws :
        LET after == RunChildStep(workers[w], u, domain)
        IN  IF after.status = "raised"
            THEN /\ workers' = [workers EXCEPT ![w] = Idle]
                 /\ outqueue' = ResultPut(outqueue,
                        [job |-> after.job, success |-> FALSE,
                         value |-> after.exc])
                 /\ index' = index + 1
            ELSE /\ workers' = [workers EXCEPT ![w] = after]
                 /\ UNCHANGED <<outqueue, index>>
    /\ UNCHANGED <<pc, argv, args, params, domain, gen, generated, taskqueue,
                   length, yielded, crashes, error>>
    /\ UNCHANGED <<inits, executed>>
    /\ UNCHANGED otherVars

\* run_child returns, run_trial builds its result, the worker sends it back.
WorkerReturn(w) ==
    /\ pc = "running"
    /\ w \in PoolWorkers
    /\ workers[w] # Idle
    /\ workers[w].i >= workers[w].params.numberofsentences
    /\ outqueue' = ResultPut(outqueue,
          [job |-> workers[w].job, success |-> TRUE,
           value |-> TrialResults(workers[w].child, workers[w].params)])
    /\ index' = index + 1
    /\ workers' = [workers EXCEPT ![w] = Idle]
    /\ UNCHANGED <<pc, argv, args, params, domain, gen, generated, taskqueue,
                   length, yielded, crashes, error>>
    /\ UNCHANGED <<inits, executed>>
    /\ UNCHANGED otherVars

\* (a variant of WorkerCrash: the pool puts the lost task back on the queue)
WorkerCrashRequeue(w) ==
    /\ pc = "running"
    /\ w \in PoolWorkers
    /\ workers[w] # Idle
    /\ crashes < MaxCrashes
    /\ crashes' = crashes + 1
    /\ workers' = [workers EXCEPT ![w] = Idle]
    /\ taskqueue' = TaskPut(taskqueue, [job |-> workers[w].job,
                                        params |-> workers[w].params])
    /\ UNCHANGED <<pc, argv, args, params, domain, gen, generated,
                   outqueue, index, length, yielded, error>>
    /\ UNCHANGED <<inits, executed>>
    /\ UNCHANGED otherVars

\* A worker process dies while it executes a trial.  The pool starts a new
\* worker in its place; the task it held is gone.
WorkerCrash(w) ==
    /\ pc = "running"
    /\ w \in PoolWorkers
    /\ workers[w] # Idle
    /\ crashes < MaxCrashes
    /\ crashes' = crashes + 1
    /\ workers' = [workers EXCEPT ![w] = Idle]
    /\ UNCHANGED <<pc, argv, args, params, domain, gen, generated, taskqueue,
                   outqueue, index, length, yielded, error>>
    /\ UNCHANGED <<inits, executed>>
    /\ UNCHANGED otherVars

\* The consumer pulls the next item: IMapUnorderedIterator.next() behind
\* progress_bar and `yield from`.
ConsumerNext ==
    /\ pc = "running"
    /\ \/ /\ outqueue # <<>>
          /\ Head(outqueue).success
          /\ yielded' = yielded (+) SetToBag({ProgressBar(Head(outqueue))})
          /\ outqueue' = Tail(outqueue)
          /\ UNCHANGED <<pc, error, taskqueue, workers>>
       \/ /\ outqueue # <<>>
          /\ ~Head(outqueue).success
          /\ pc' = "raised"
          /\ error' = Head(outqueue).value
          /\ Terminated
          /\ UNCHANGED yielded
       \/ /\ outqueue = <<>>
          /\ index = length
          /\ pc' = "done"
          /\ Terminated
          /\ UNCHANGED <<yielded, error>>
    /\ UNCHANGED <<argv, args, params, domain, gen, generated, index, length,
                   crashes>>
    /\ UNCHANGED <<inits, executed>>
    /\ UNCHANGED otherVars

Next ==
    \/ ParseArguments
    \/ Main
    \/ \E file \in FlatFiles : StartRun(file)
    \/ PullTrial
    \/ SetLength
    \/ \E w \in Procs : WorkerTake(w)
    \/ \E w \in Procs : WorkerStep(w)
    \/ \E w \in Procs : WorkerReturn(w)
    \/ \E w \in Procs : WorkerCrash(w)
    \/ ConsumerNext

Spec == Init /\ [][Next]_vars


(***************************************************************************)
(* Sentence.py.  A string is a sequence of characters.                     *)
(***************************************************************************)
Space == " "
O1 == <<"O", "1">>
O2 == <<"O", "2">>
O3 == <<"O", "3">>
P == <<"P">>
Keys == {O1, O2, O3, P}

\* The words sentences are made of: the bare markers, a marker inside a
\* longer tag, a tag holding two markers, a word with no marker, and the empty
\* word (which puts two separators side by side, or one at an end).
Vocabulary == {O1, O2, O3, P, <<"X", "O", "2", "Y">>, <<"O", "1", "P">>,
               <<"S">>, <<>>}

RECURSIVE Join(_)
Join(words) ==
    IF words = <<>> THEN <<>>
    ELSE IF Len(words) = 1 THEN words[1]
    ELSE words[1] \o <<Space>> \o Join(Tail(words))

SentenceStrings ==
    UNION {{Join(ws) : ws \in [1..n -> Vocabulary]} : n \in 0..MaxTokens}

\* str.split(): the maximal runs of non-whitespace characters, in order.
\* `word` is the run being read.
RECURSIVE SplitFrom(_, _)
SplitFrom(str, word) ==
    IF str = <<>>
    THEN IF word = <<>> THEN <<>> ELSE <<word>>
    ELSE IF Head(str) = Space
         THEN IF word = <<>>
              THEN SplitFrom(Tail(str), <<>>)
              ELSE <<word>> \o SplitFrom(Tail(str), <<>>)
         ELSE SplitFrom(Tail(str), Append(word, Head(str)))

Split(str) == SplitFrom(str, <<>>)

\* `key in word`
\* (a variant: `key == word`)
ContainsExactly(word, key) == word = key
Contains(word, key) ==
    \E i \in 1..(Len(word) - Len(key) + 1) :
        SubSeq(word, i, i + Len(key) - 1) = key

\* list.index(word), for a word the list holds: the scan stops at the first
\* equal element.  Positions are counted from 0.
RECURSIVE ListIndexFrom(_, _, _)
ListIndexFrom(list, word, i) ==
    IF list[i + 1] = word THEN i ELSE ListIndexFrom(list, word, i + 1)

ListIndex(list, word) == ListIndexFrom(list, word, 0)

\* Sentence.indexString: the for loop from word number n on.
RECURSIVE IndexStringFrom(_, _, _)
IndexStringFrom(list, key, n) ==
    IF n > Len(list) THEN -1
    ELSE IF Contains(list[n], key) THEN ListIndex(list, list[n])
    ELSE IndexStringFrom(list, key, n + 1)

IndexString(list, key) == IndexStringFrom(list, key, 1)

\* The condition of the if in Sentence.__init__.
CanonicalATest(O1index, O2index, Pindex, O3index) ==
    O1index # -1 /\ O1index < O2index /\ O2index < Pindex
    /\ O3index = Pindex + 1

\* The condition of the first elif.
\* (a variant: without its `O3index != -1`)
CanonicalBTestUnguarded(O1index, O2index, Pindex, O3index) ==
    O3index < O2index /\ O2index < O1index /\ Pindex = O3index + 1
CanonicalBTest(O1index, O2index, Pindex, O3index) ==
    O3index # -1 /\ O3index < O2index /\ O2index < O1index
    /\ Pindex = O3index + 1

\* The if / elif / elif of Sentence.__init__ over the four indices.
\* (a variant: without the first elif)
OutObliqueOfWithoutMirror(O1index, O2index, Pindex, O3index) ==
    IF O1index # -1 /\ O1index < O2index /\ O2index < Pindex
       /\ O3index = Pindex + 1
    THEN FALSE
    ELSE IF O1index # -1 /\ O2index # -1 /\ Pindex # -1 /\ O3index # -1
         THEN TRUE
         ELSE FALSE
\* (a variant: the last elif joined with `or`)
OutObliqueOfAnyPresent(O1index, O2index, Pindex, O3index) ==
    IF O1index # -1 /\ O1index < O2index /\ O2index < Pindex
       /\ O3index = Pindex + 1
    THEN FALSE
    ELSE IF O3index # -1 /\ O3index < O2index /\ O2index < O1index
            /\ Pindex = O3index + 1
         THEN FALSE
         ELSE IF O1index # -1 \/ O2index # -1 \/ Pindex # -1 \/ O3index # -1
              THEN TRUE
              ELSE FALSE
OutObliqueOf(O1index, O2index, Pindex, O3index) ==
    IF O1index # -1 /\ O1index < O2index /\ O2index < Pindex
       /\ O3index = Pindex + 1
    THEN FALSE
    ELSE IF O3index # -1 /\ O3index < O2index /\ O2index < O1index
            /\ Pindex = O3index + 1
         THEN FALSE
         ELSE IF O1index # -1 /\ O2index # -1 /\ Pindex # -1 /\ O3index # -1
              THEN TRUE
              ELSE FALSE

\* (a variant of NewSentence: the mirrored order is canonical only for a
\* head-final language)
NewSentenceByLanguage(info) ==
    LET list == Split(info[3])
    IN  [language |-> info[1], inflection |-> info[2], sentenceStr |-> info[3],
         sentenceList |-> list,
         outOblique |->
            IF info[1] = Japanese
            THEN OutObliqueOf(IndexString(list, O1), IndexString(list, O2),
                              IndexString(list, P), IndexString(list, O3))
            ELSE OutObliqueOfWithoutMirror(IndexString(list, O1),
                                           IndexString(list, O2),
                                           IndexString(list, P),
                                           IndexString(list, O3))]

\* Sentence.__init__
NewSentence(info) ==
    LET list == Split(info[3])
    IN  [language |-> info[1], inflection |-> info[2], sentenceStr |-> info[3],
         sentenceList |-> list,
         outOblique |-> OutObliqueOf(IndexString(list, O1),
                                     IndexString(list, O2),
                                     IndexString(list, P),
                                     IndexString(list, O3))]

\* The scheduler is not running.
SchedOff ==
    /\ pc = "off"
    /\ argv = NoArgs
    /\ args = NoArgs
    /\ params = NoParams
    /\ domain = Uninitialised
    /\ gen = GenStart
    /\ generated = <<>>
    /\ taskqueue = <<>>
    /\ workers = [w \in Procs |-> Idle]
    /\ outqueue = <<>>
    /\ index = 0
    /\ length = NoLength
    /\ yielded = EmptyBag
    /\ crashes = 0
    /\ inits = 0
    /\ executed = <<>>
    /\ error = NoError

\* The language and inflection a sentence record comes with.
InfoKinds == {<<English, "DEC">>, <<Japanese, "Q">>}

SentenceInit ==
    /\ SchedOff
    /\ NoTrialInit
    /\ infoList \in {<<kind[1], kind[2], str>> :
                        kind \in InfoKinds, str \in SentenceStrings}
    /\ sentence = NoSentence
    /\ call = NoCall
    /\ ret = NoCall

\* Sentence(infoList)
Construct ==
    /\ sentence = NoSentence
    /\ sentence' = NewSentence(infoList)
    /\ call' = <<"__init__">>
    /\ UNCHANGED <<infoList, ret, schedVars, trialVars>>

\* sentence.indexString(key)
CallIndexString(key) ==
    /\ sentence # NoSentence
    /\ call' = <<"indexString", key>>
    /\ ret' = IndexString(sentence.sentenceList, key)
    /\ UNCHANGED <<infoList, sentence, schedVars, trialVars>>

\* sentence.outOblique()
CallOutOblique ==
    /\ sentence # NoSentence
    /\ call' = <<"outOblique">>
    /\ ret' = sentence.outOblique
    /\ UNCHANGED <<infoList, sentence, schedVars, trialVars>>

SentenceNext ==
    \/ Construct
    \/ \E key \in Keys : CallIndexString(key)
    \/ CallOutOblique

SentenceSpec == SentenceInit /\ [][SentenceNext]_vars


(***************************************************************************)
(* The scheduler under fair scheduling: every thread and process of the    *)
(* pool that can take a step eventually takes it, and the consumer keeps   *)
(* pulling.  A worker's death is not owed to anyone.  The runs are those   *)
(* of a few experiments.                                                   *)
(***************************************************************************)
FairInit ==
    /\ Init
    /\ argv # NoArgs =>
        /\ argv.noise_levels \in {<<0>>, <<Resolution + 1>>}
        /\ argv.num_sents = 1
        /\ argv.num_procs = MaxProcs
    /\ params # NoParams =>
        /\ params.languages \in {<<English>>, <<English, Japanese>>}
        /\ params.noise_levels \in {<<Half>>, <<0, Resolution>>}
        /\ params.num_sentences = 1
        /\ params.num_procs = MaxProcs

Fairness ==
    /\ WF_vars(ParseArguments)
    /\ WF_vars(Main)
    /\ WF_vars(\E file \in FlatFiles : StartRun(file))
    /\ WF_vars(PullTrial)
    /\ WF_vars(SetLength)
    /\ \A w \in Procs : WF_vars(WorkerTake(w))
    /\ \A w \in Procs : WF_vars(WorkerStep(w))
    /\ \A w \in Procs : WF_vars(WorkerReturn(w))
    /\ WF_vars(ConsumerNext)

FairSpec == FairInit /\ [][Next]_vars /\ Fairness

(***************************************************************************)
(* Vocabulary of the properties.                                           *)
(***************************************************************************)
Started_ == pc \in {"running", "done", "raised"}

\* How many entries of the list q equal x.
Occurrences(q, x) == Cardinality({i \in 1..Len(q) : q[i] = x})

\* The records the consumer has received that satisfy Test.
YieldedWhere(Test(_)) ==
    LET S == {e \in BagToSet(yielded) : Test(e)}
    IN  BagCardinality([e \in S |-> yielded[e]])

\* How many records the consumer has received for job j.
YieldedFor(j) == LET Is(e) == e.job = j IN YieldedWhere(Is)

\* How many records the consumer has received for grammar g at noise x.
YieldedPair(g, x) ==
    LET Is(e) == e.value.language = g /\ e.value.noise = x
    IN  YieldedWhere(Is)

Range(q) == {q[i] : i \in 1..Len(q)}

\* C1: when the stream is exhausted normally, the consumer has received
\* exactly g*n*r records: one for every generated trial descriptor, carrying
\* that descriptor's parameters, so that every (grammar, noise) entry pair of
\* the experiment is there exactly r times.
Thm_C1 ==
    pc = "done" =>
        /\ BagCardinality(yielded) = NumTrials(params)
        /\ Len(generated) = NumTrials(params)
        /\ \A j \in 1..Len(generated) :
            /\ YieldedFor(j) = 1
            /\ \E e \in BagToSet(yielded) :
                /\ e.job = j
                /\ e.value.language = generated[j].trial.language
                /\ e.value.noise = generated[j].trial.noise
        /\ \A g \in Range(params.languages), x \in Range(params.noise_levels) :
            YieldedPair(g, x) = params.num_echildren
                                * Occurrences(params.languages, g)
                                * Occurrences(params.noise_levels, x)

\* A run of two grammars at two noise levels on two workers has ended normally.
Wit_C1 ==
    /\ pc = "done"
    /\ Len(params.languages) = 2
    /\ Len(params.noise_levels) = 2
    /\ params.num_echildren = 1
    /\ params.num_procs = 2
    /\ params.num_sentences >= 1

\* Some generated trial names a grammar the domain store does not hold.
UnknownGrammarUsed ==
    \E j \in 1..Len(generated) :
        ~DomainKnows(domain, generated[j].trial.language)

\* C2 as stated: a stream that has a trial with a grammar id the store does
\* not hold never reaches normal exhaustion.
Claim_C2 == pc = "done" => ~UnknownGrammarUsed

\* C2, amended: with a sentence count of at least 1, a stream that has a trial
\* with a grammar id the store does not hold never reaches normal exhaustion
\* and never yields a record for such a trial; the only error it delivers for
\* it ends the stream.
Thm_C2 ==
    Started_ /\ params.num_sentences >= 1 =>
        /\ pc = "done" => ~UnknownGrammarUsed
        /\ \A e \in BagToSet(yielded) : DomainKnows(domain, e.value.language)
        /\ error = "UnknownGrammar" => pc = "raised" /\ UnknownGrammarUsed

\* The consumer received the error after it had received a result.
Wit_C2 ==
    /\ pc = "raised"
    /\ error = "UnknownGrammar"
    /\ params.num_sentences >= 1
    /\ UnknownGrammarUsed
    /\ BagCardinality(yielded) >= 1

\* C3: under fair scheduling every submitted trial eventually has its result
\* delivered, or the consumer has a fatal error; and the stream is exhausted
\* only when every submitted trial has its result delivered.
Claim_C3 ==
    /\ \A j \in 1..MaxTrials :
        (pc = "running" /\ Len(generated) >= j)
            ~> (YieldedFor(j) = 1 \/ pc = "raised")
    /\ [](pc = "done" => \A j \in 1..Len(generated) : YieldedFor(j) = 1)

\* C9: after a worker process has died in a trial, the consumer eventually
\* receives a fatal error.
Claim_C9 == (pc = "running" /\ crashes > 0) ~> (pc = "raised")

\* C7: what the generator has produced is at every moment the beginning of the
\* enumeration of grammars (outer), noise levels (middle) and replications
\* (inner), every descriptor carrying the experiment's rates and sentence
\* count; once the generator is exhausted it has produced all g*n*r
\* combinations, each once.
ExpectedAt(p, j) ==
    LET n == Len(p.noise_levels)
        r == p.num_echildren
        at == [lang |-> ((j - 1) \div (n * r)) + 1,
               noise |-> (((j - 1) \div r) % n) + 1,
               rep |-> ((j - 1) % r) + 1]
    IN  [at |-> at,
         trial |-> [language |-> p.languages[at.lang],
                    noise |-> p.noise_levels[at.noise],
                    rate |-> p.learningrate,
                    conservativerate |-> p.conservative_learningrate,
                    numberofsentences |-> p.num_sentences]]

Thm_C7 ==
    Started_ =>
        /\ Len(generated) <= NumTrials(params)
        /\ \A j \in 1..Len(generated) : generated[j] = ExpectedAt(params, j)
        /\ length # NoLength =>
            /\ length = NumTrials(params)
            /\ Len(generated) = NumTrials(params)
            /\ \A l \in 1..Len(params.languages),
                  n \in 1..Len(params.noise_levels),
                  r \in 1..params.num_echildren :
                Cardinality({j \in 1..Len(generated) :
                    generated[j].at = [lang |-> l, noise |-> n, rep |-> r]}) = 1

\* The generator is exhausted after two replications at each of two noise
\* levels.
Wit_C7 ==
    /\ Started_
    /\ length # NoLength
    /\ Len(generated) = 4
    /\ Len(params.noise_levels) = 2
    /\ params.num_echildren = 2

\* C8: in a trial at noise 0.0 every sentence requested so far came through
\* get_sentence_in_language, in a trial at noise 1.0 every one came through
\* get_sentence_not_in_language; a trial requests one sentence per
\* iteration and no more than its sentence count.
Busy(w) == workers[w] # Idle

Thm_C8 ==
    \A w \in Procs :
        Busy(w) =>
            /\ workers[w].i <= workers[w].params.numberofsentences
            /\ workers[w].inCalls + workers[w].notInCalls = workers[w].i
            /\ workers[w].params.noise = 0 =>
                workers[w].notInCalls = 0 /\ workers[w].inCalls = workers[w].i
            /\ workers[w].params.noise = Resolution =>
                workers[w].inCalls = 0 /\ workers[w].notInCalls = workers[w].i

\* One worker has finished the loop of a trial at noise 0.0 while another has
\* finished the loop of a trial at noise 1.0, two sentences each.
Wit_C8 ==
    \E v, w \in Procs :
        /\ Busy(v) /\ Busy(w)
        /\ workers[v].params.noise = 0
        /\ workers[w].params.noise = Resolution
        /\ workers[v].i = workers[v].params.numberofsentences
        /\ workers[w].i = workers[w].params.numberofsentences
        /\ workers[v].inCalls = 2
        /\ workers[w].notInCalls = 2

\* C10: with a noise level outside [0,1] on the command line no trial is
\* ever generated, dispatched or executed.
OutOfRange(x) == x < 0 \/ x > Resolution

Claim_C10 ==
    (argv # NoArgs /\ \E x \in Range(argv.noise_levels) : OutOfRange(x)) =>
        /\ generated = <<>>
        /\ \A w \in Procs : ~Busy(w)

(***************************************************************************)
(* Properties of Sentence.                                                 *)
(***************************************************************************)
\* word has key inside it: some characters, then key, then some characters.
HasMarker(word, key) ==
    \E a \in 0..Len(word) :
        /\ a + Len(key) <= Len(word)
        /\ \A c \in 1..Len(key) : word[a + c] = key[c]

\* The position, from 0, of the first token of list that has key inside it;
\* -1 when there is none.
FirstWith(list, key) ==
    IF \A i \in 1..Len(list) : ~HasMarker(list[i], key)
    THEN -1
    ELSE (CHOOSE i \in 1..Len(list) :
            /\ HasMarker(list[i], key)
            /\ \A j \in 1..(i - 1) : ~HasMarker(list[j], key)) - 1

CanonicalA(a, b, p, c) == a < b /\ b < p /\ c = p + 1
CanonicalB(a, b, p, c) == c < b /\ b < a /\ p = c + 1

\* C4: with all four markers found, outOblique() is false for the two
\* canonical orderings and true for every other.
Thm_C4 ==
    call = <<"outOblique">> =>
        LET a == FirstWith(sentence.sentenceList, O1)
            b == FirstWith(sentence.sentenceList, O2)
            p == FirstWith(sentence.sentenceList, P)
            c == FirstWith(sentence.sentenceList, O3)
        IN  (a >= 0 /\ b >= 0 /\ p >= 0 /\ c >= 0) =>
                (ret = ~(CanonicalA(a, b, p, c) \/ CanonicalB(a, b, p, c)))

\* outOblique() has returned true for a sentence with all four markers.
Wit_C4 ==
    /\ call = <<"outOblique">>
    /\ \A key \in Keys : FirstWith(sentence.sentenceList, key) >= 0
    /\ ret = TRUE

\* C5: with a marker that no token holds, and neither canonical test
\* satisfied, outOblique() is false.
Thm_C5 ==
    call = <<"outOblique">> =>
        LET a == FirstWith(sentence.sentenceList, O1)
            b == FirstWith(sentence.sentenceList, O2)
            p == FirstWith(sentence.sentenceList, P)
            c == FirstWith(sentence.sentenceList, O3)
        IN  /\ (a = -1 \/ b = -1 \/ p = -1 \/ c = -1)
            /\ ~(a # -1 /\ CanonicalA(a, b, p, c))
            /\ ~(c # -1 /\ CanonicalB(a, b, p, c))
            => ret = FALSE

\* outOblique() has returned false for a sentence of four tokens that lacks
\* exactly one marker.
Wit_C5 ==
    /\ call = <<"outOblique">>
    /\ Len(sentence.sentenceList) = 4
    /\ Cardinality({key \in Keys :
                      FirstWith(sentence.sentenceList, key) = -1}) = 1
    /\ ret = FALSE

\* C6: indexString(key) is the position of the first token that has key
\* inside it, and -1 exactly when no token has.
Thm_C6 ==
    call[1] = "indexString" =>
        /\ ret = FirstWith(sentence.sentenceList, call[2])
        /\ ret = -1 <=>
            \A i \in 1..Len(sentence.sentenceList) :
                ~HasMarker(sentence.sentenceList[i], call[2])

\* indexString has found its key in the second of three tokens, a token that
\* holds two markers and occurs twice in the sentence.
Wit_C6 ==
    /\ call[1] = "indexString"
    /\ ret = 1
    /\ Len(sentence.sentenceList) = 3
    /\ sentence.sentenceList[2] = sentence.sentenceList[3]
    /\ \A key \in {O1, P} : HasMarker(sentence.sentenceList[2], key)


(***************************************************************************)
(* Properties of the pool's prefetch, of run_trial's record, of the        *)
(* learner and of the run's life cycle.                                    *)
(***************************************************************************)
\* The trial descriptors pulled from the generator whose results have not
\* been produced.
InFlight == Len(generated) - index

\* C11: the descriptors pulled from the generator and not yet answered are
\* never more than the W workers can hold: one executing and one waiting per
\* worker.
Claim_C11 ==
    pc = "running" /\ crashes = 0 => InFlight <= 2 * params.num_procs


(***************************************************************************)
(* run_trial on its own: from the learner run_child returned to the        *)
(* record.  The learner (InstrumentedChild) is known by its interface: a   *)
(* resolved target language and a mapping from rule ids to weights.        *)
(***************************************************************************)
\* The rule ids a learner's grammar may use, and their weights.
RuleIds == {"SP", "noise", "timestamp"}
Weights == {0, Half}
Grammars == UNION {[K -> Weights] : K \in SUBSET RuleIds}

\* The learners run_child may return.
Learners == [target_language : {English, Japanese}, grammar : Grammars]

\* The clock readings around run_child.
Clock == 0..1

TrialSpace ==
    [language : {English, Japanese}, noise : NoiseValues,
     rate : {DefaultRate}, conservativerate : {DefaultConservativeRate},
     numberofsentences : 0..MaxSentences]

TrialInit ==
    /\ SchedOff
    /\ NoSentenceInit
    /\ trialIn \in {t \in [params : TrialSpace, child : Learners,
                           then : Clock, now : Clock] : t.then <= t.now}
    /\ results = NoResults

\* run_trial(params), run_child's part done.
RunTrial ==
    /\ results = NoResults
    /\ results' = RunTrialRecord(trialIn.then, trialIn.now, trialIn.child,
                                 trialIn.params)
    /\ UNCHANGED <<trialIn, schedVars, sentVars>>

TrialSpec == TrialInit /\ [][RunTrial]_vars

\* C12: the record run_trial returns gives back the learner's resolved
\* language under 'language', every grammar weight under its rule id, and each
\* of the five trial parameters under its name.
Claim_C12 ==
    results # NoResults =>
        /\ results.language = trialIn.child.target_language
        /\ \A k \in DOMAIN trialIn.child.grammar :
            results[k] = trialIn.child.grammar[k]
        /\ \A k \in DOMAIN trialIn.params : results[k] = trialIn.params[k]


(***************************************************************************)
(* C13: one learner per execution, fed once per iteration.                 *)
(***************************************************************************)
\* Worker w's execution ends by sending its result back (not by the death of
\* the process or the end of the pool).
Answered(w) == Busy(w) /\ ~Busy(w)' /\ index' = index + 1
AnsweredWithRecord(w) ==
    /\ Answered(w)
    /\ outqueue' = Append(outqueue, outqueue'[Len(outqueue')])
    /\ outqueue'[Len(outqueue')].success

\* C13: every execution of a trial with sentence count k that sends back its
\* result has called its learner's consumeSentence exactly k times.
Claim_C13 ==
    [][\A w \in Procs :
        Answered(w) =>
            workers[w].child.consumed = workers[w].params.numberofsentences]_vars

\* The learner of an execution in progress: configured from the trial, fed
\* once for each iteration done and for each sentence sampled, never more
\* than k times; no two workers execute the same trial.
OwnLearner ==
    \A w \in Procs :
        Busy(w) =>
            /\ workers[w].child.target_language = workers[w].params.language
            /\ workers[w].child.rate = workers[w].params.rate
            /\ workers[w].child.conservativerate
                 = workers[w].params.conservativerate
            /\ workers[w].child.consumed = workers[w].i
            /\ workers[w].inCalls + workers[w].notInCalls = workers[w].i
            /\ workers[w].i <= workers[w].params.numberofsentences
            /\ \A v \in Procs \ {w} :
                Busy(v) => workers[v].job # workers[w].job

\* What a step does to the learner worker w holds.
LearnerStep(w) ==
    /\ ~Busy(w) /\ Busy(w)' =>
        /\ workers'[w].child.consumed = 0
        /\ workers'[w].i = 0
        /\ workers'[w].job = Head(taskqueue).job
        /\ workers'[w].params = Head(taskqueue).params
    /\ Busy(w) /\ Busy(w)' =>
        /\ workers'[w].job = workers[w].job
        /\ workers'[w].params = workers[w].params
        /\ \/ workers'[w] = workers[w]
           \/ /\ workers'[w].i = workers[w].i + 1
              /\ workers'[w].child = ConsumeSentence(workers[w].child)
              /\ \A v \in Procs \ {w} : workers'[v] = workers[v]
    /\ AnsweredWithRecord(w) =>
        workers[w].child.consumed = workers[w].params.numberofsentences
    /\ Answered(w) /\ ~AnsweredWithRecord(w) =>
        /\ workers[w].child.consumed = 0
        /\ workers[w].params.numberofsentences >= 1

\* C13, amended: each execution starts with one fresh learner configured from
\* its trial; every iteration the domain store answers feeds that learner
\* once, with the sentence sampled in that iteration, and changes no other
\* worker's learner; an execution that sends back a record has fed it exactly
\* k times, one that sends back the store's error has fed it less (not at
\* all).
Thm_C13 == []OwnLearner /\ [][\A w \in Procs : LearnerStep(w)]_vars

\* A learner has consumed its two sentences while another worker is executing
\* another trial.
Wit_C13 ==
    \E w, v \in Procs :
        /\ Busy(w) /\ Busy(v) /\ w # v
        /\ workers[w].params.numberofsentences = 2
        /\ workers[w].child.consumed = 2
        /\ workers[v].job # workers[w].job
        /\ workers[v].child.consumed = 1


(***************************************************************************)
(* C14: the domain store is loaded once, before any trial is dispatched.   *)
(***************************************************************************)
\* A trial has been dispatched: pulled from the generator for the pool.
Dispatched == generated # <<>> \/ taskqueue # <<>> \/ executed # <<>>

InitialisedBeforeUse ==
    /\ inits <= 1
    /\ Dispatched => inits = 1 /\ domain \in FlatFiles
    /\ \A w \in Procs : Busy(w) => inits = 1 /\ domain \in FlatFiles
    /\ outqueue # <<>> \/ yielded # EmptyBag => inits = 1

\* C14: within a run, init_from_flatfile happens exactly once, before the
\* first trial is dispatched and so before any sentence is requested from the
\* store; once the pool runs the store is not initialised again.
Thm_C14 ==
    /\ []InitialisedBeforeUse
    /\ [][Started_ => domain' = domain /\ inits' = inits]_vars

\* A worker has requested a sentence while a later trial waits in the queue.
Wit_C14 ==
    /\ inits = 1
    /\ taskqueue # <<>>
    /\ \E w \in Procs : Busy(w) /\ workers[w].i >= 1


(***************************************************************************)
(* C15: no trial is executed twice, and an error ends the stream.          *)
(***************************************************************************)
NoDuplicates(q) == \A a, b \in 1..Len(q) : a # b => q[a] # q[b]

ExecutedOnce ==
    /\ NoDuplicates(executed)
    /\ \A a \in 1..Len(executed) : executed[a] \in 1..Len(generated)
    /\ pc = "raised" =>
        /\ taskqueue = <<>>
        /\ outqueue = <<>>
        /\ \A w \in Procs : ~Busy(w)

\* C15: no trial descriptor is executed more than once (a trial that failed,
\* or whose worker died, is not started again), and once the error of a
\* trial has been delivered to the consumer the stream yields nothing more
\* and no trial runs: the pool is ended with the remaining trials undone.
Thm_C15 ==
    /\ []ExecutedOnce
    /\ [][pc = "raised" =>
            /\ pc' = "raised"
            /\ yielded' = yielded
            /\ executed' = executed]_vars

\* The error of a trial was delivered after a record had been yielded, with
\* trials generated that no worker ever started.
Wit_C15 ==
    /\ pc = "raised"
    /\ error = "UnknownGrammar"
    /\ yielded # EmptyBag
    /\ Len(executed) < Len(generated)


(***************************************************************************)
(* C17: at most W trials execute at a time, one per worker.                *)
(***************************************************************************)
Executing == {w \in Procs : Busy(w)}

\* C17: while a run with pool size W is under way, the trials in execution
\* (started, and neither answered nor lost with their worker) are as many as
\* the busy workers, each of them one of the pool's W workers executing one
\* trial of its own: at most W.
Thm_C17 ==
    pc = "running" =>
        /\ Executing \subseteq 1..params.num_procs
        /\ Cardinality(Executing) <= params.num_procs
        /\ Len(executed) - index - crashes = Cardinality(Executing)
        /\ \A v, w \in Executing : v # w => workers[v].job # workers[w].job

\* Every worker of a pool of two executes a trial and a third trial waits.
Wit_C17 ==
    /\ pc = "running"
    /\ params.num_procs = 2
    /\ Cardinality(Executing) = 2
    /\ taskqueue # <<>>


(***************************************************************************)
(* C16: outOblique() depends on the sentence string alone.                 *)
(***************************************************************************)
\* C16: the outOblique() of a Sentence is that of every Sentence built from
\* the same string with another language and inflection, and every string,
\* the empty one and those of separators only included, builds a Sentence with
\* a Boolean flag and the string's tokens.
Thm_C16 ==
    /\ sentence # NoSentence =>
        /\ sentence.outOblique \in BOOLEAN
        /\ sentence.sentenceStr = infoList[3]
        /\ sentence.sentenceList = Split(infoList[3])
        /\ \A kind \in InfoKinds :
            NewSentence(<<kind[1], kind[2], infoList[3]>>).outOblique
                = sentence.outOblique
    /\ call = <<"outOblique">> =>
        \A kind \in InfoKinds :
            NewSentence(<<kind[1], kind[2], infoList[3]>>).outOblique = ret

\* outOblique() has returned true for a Japanese question, as it does for
\* the English declarative of the same string.
Wit_C16 ==
    /\ call = <<"outOblique">>
    /\ ret = TRUE
    /\ sentence.language = Japanese
    /\ sentence.inflection = "Q"
    /\ NewSentence(<<English, "DEC", infoList[3]>>).outOblique = TRUE

(***************************************************************************)
(* C18: a canonical test never fires on the -1 of an absent marker.        *)
(***************************************************************************)
\* C18: for the indices indexString gives for a sentence's tokens, either
\* canonical test being true means all four indices are at least 0 (and the
\* flag is false), and the two tests are never true together.
Thm_C18 ==
    sentence # NoSentence =>
        LET O1index == IndexString(sentence.sentenceList, O1)
            O2index == IndexString(sentence.sentenceList, O2)
            Pindex == IndexString(sentence.sentenceList, P)
            O3index == IndexString(sentence.sentenceList, O3)
            A == CanonicalATest(O1index, O2index, Pindex, O3index)
            B == CanonicalBTest(O1index, O2index, Pindex, O3index)
        IN  /\ A \/ B =>
                /\ O1index >= 0 /\ O2index >= 0 /\ Pindex >= 0 /\ O3index >= 0
                /\ sentence.outOblique = FALSE
            /\ ~(A /\ B)

\* A Sentence was built whose indices satisfy the second canonical test, its
\* P inside a token that also holds another marker.
Wit_C18 ==
    /\ sentence # NoSentence
    /\ CanonicalBTest(IndexString(sentence.sentenceList, O1),
                      IndexString(sentence.sentenceList, O2),
                      IndexString(sentence.sentenceList, P),
                      IndexString(sentence.sentenceList, O3))
    /\ \E i \in 1..Len(sentence.sentenceList) :
        Len(sentence.sentenceList[i]) > 2

=============================================================================
